---- MODULE Spec2Model ----
(***************************************************************************)
(* openvpn-management: the status request of the OpenVPN management        *)
(* interface client (src/src/lib.rs).                                      *)
(*                                                                         *)
(* A text (Rust String / &str) is a sequence of one-character strings, so  *)
(* that prefix tests, splitting, trimming, popping and number parsing are  *)
(* computed character by character as the code computes them.              *)
(***************************************************************************)
EXTENDS Integers, Sequences, FiniteSets, TLC

(***************************************************************************)
(* Constants of lib.rs                                                     *)
(***************************************************************************)
ENDING == <<"E", "N", "D">>

START_CLIENT_LIST == <<"C", "L", "I", "E", "N", "T", "_", "L", "I", "S", "T">>

START_TITLE == <<"T", "I", "T", "L", "E">>

START_TIME == <<"T", "I", "M", "E">>

HEADER_START_LINE == <<"H", "E", "A", "D", "E", "R", "\t">> \o START_CLIENT_LIST

UNDEF == <<"U", "N", "D", "E", "F">>

\* b"status\n", the only command get_status writes
STATUS_COMMAND == <<"s", "t", "a", "t", "u", "s", "\n">>

(***************************************************************************)
(* str primitives of the standard library, as the code uses them           *)
(***************************************************************************)
\* char::is_whitespace, restricted to the characters of the model's texts
WHITESPACE == {" ", "\t", "\n", "\r"}

DIGITS == {"0", "1", "2", "3", "4", "5", "6", "7", "8", "9"}

\* Body applied to the value of v, v computed once
With(v, Body(_)) == CHOOSE r \in {Body(x) : x \in {v}} : TRUE

SetMin(S) == CHOOSE x \in S : \A y \in S : x <= y

SetMax(S) == CHOOSE x \in S : \A y \in S : y <= x

\* str::starts_with
starts_with(s, p) == Len(s) >= Len(p) /\ SubSeq(s, 1, Len(p)) = p

\* str::ends_with
ends_with(s, p) == Len(s) >= Len(p) /\ SubSeq(s, Len(s) - Len(p) + 1, Len(s)) = p

\* str::trim: leading and trailing whitespace removed
trim(s) ==
    LET keep == {i \in 1..Len(s) : s[i] \notin WHITESPACE}
    IN  IF keep = {} THEN <<>> ELSE SubSeq(s, SetMin(keep), SetMax(keep))

\* String::pop: the last character removed, nothing done on the empty string
pop(s) == IF s = <<>> THEN <<>> ELSE SubSeq(s, 1, Len(s) - 1)

\* the positions of the separator c in s
Separators(s, c) == {i \in 1..Len(s) : s[i] = c}

\* the k-th smallest element of a set of numbers
Nth(S, k) == CHOOSE i \in S : Cardinality({j \in S : j < i}) = k - 1

\* str::split(char): the pieces between the separators; one piece (the whole text,
\* possibly empty) when there is no separator, and an empty last piece when the
\* text ends with the separator
split(s, c) ==
    [k \in 1..(Cardinality(Separators(s, c)) + 1) |->
        SubSeq(s,
               IF k = 1 THEN 1 ELSE Nth(Separators(s, c), k - 1) + 1,
               IF k = Cardinality(Separators(s, c)) + 1 THEN Len(s)
               ELSE Nth(Separators(s, c), k) - 1)]

DigitValue(c) ==
    CASE c = "0" -> 0 [] c = "1" -> 1 [] c = "2" -> 2 [] c = "3" -> 3 [] c = "4" -> 4
      [] c = "5" -> 5 [] c = "6" -> 6 [] c = "7" -> 7 [] c = "8" -> 8 [] c = "9" -> 9

RECURSIVE DecimalValue(_)
DecimalValue(ds) ==
    IF ds = <<>> THEN 0
    ELSE 10 * DecimalValue(SubSeq(ds, 1, Len(ds) - 1)) + DigitValue(ds[Len(ds)])

AllDigits(s) == \A i \in 1..Len(s) : s[i] \in DIGITS

\* <i64 as FromStr>::from_str: an optional sign, then one or more decimal digits and
\* nothing else (no whitespace is skipped, so a trailing "\r" is an invalid digit).
\* The numerals of the model have few digits: the overflow error is not reached.
ParseI64(s) ==
    LET signed == s # <<>> /\ s[1] \in {"+", "-"}
        ds == IF signed THEN Tail(s) ELSE s
    IN  IF ds = <<>> \/ ~AllDigits(ds)
        THEN [ok |-> FALSE, val |-> 0]
        ELSE [ok |-> TRUE,
              val |-> IF signed /\ s[1] = "-" THEN 0 - DecimalValue(ds) ELSE DecimalValue(ds)]

\* ASCII lower case of the letters the special float literals are spelled with
LowerChar(c) ==
    CASE c = "I" -> "i" [] c = "N" -> "n" [] c = "F" -> "f" [] c = "A" -> "a"
      [] c = "T" -> "t" [] c = "Y" -> "y" [] c = "E" -> "e" [] OTHER -> c

Lower(s) == [i \in 1..Len(s) |-> LowerChar(s[i])]

RECURSIVE Normalize(_, _)
\* mant * 10^exp with the trailing zeros of mant moved into exp; zero is (0, 0)
Normalize(mant, exp) ==
    IF mant = 0 THEN [mant |-> 0, exp |-> 0]
    ELSE IF mant % 10 = 0 THEN Normalize(mant \div 10, exp + 1)
    ELSE [mant |-> mant, exp |-> exp]

F64Error == [ok |-> FALSE, val |-> [class |-> "none", neg |-> FALSE, mant |-> 0, exp |-> 0]]

F64Number(neg, mant, exp) ==
    LET n == Normalize(mant, exp)
    IN  [ok |-> TRUE,
         val |-> [class |-> "num", neg |-> (neg /\ n.mant # 0), mant |-> n.mant, exp |-> n.exp]]

\* <f64 as FromStr>::from_str:
\*   Float  ::= Sign? ( 'inf' | 'infinity' | 'nan' | Number )
\*   Number ::= ( Digit+ | Digit+ '.' Digit* | Digit* '.' Digit+ ) Exp?
\*   Exp    ::= 'e' Sign? Digit+
\* in any letter case, nothing else accepted (no surrounding whitespace). An f64 is
\* kept as sign, decimal mantissa and decimal exponent in normal form, so that two
\* spellings of one number are equal (0.0 = -0.0, as f64's ==); the numerals of the
\* model are short enough to be exact in an f64.
Contains(s, c) == \E i \in 1..Len(s) : s[i] = c

\* the part of s before the first c (all of s when it holds no c)
BeforeFirst(s, c) ==
    IF Contains(s, c) THEN SubSeq(s, 1, SetMin({i \in 1..Len(s) : s[i] = c}) - 1) ELSE s

\* the part of s after the first c (empty when it holds no c)
AfterFirst(s, c) ==
    IF Contains(s, c) THEN SubSeq(s, SetMin({i \in 1..Len(s) : s[i] = c}) + 1, Len(s)) ELSE <<>>

F64Decimal(neg, int, frac, exp) ==
    IF ~AllDigits(int) \/ ~AllDigits(frac) \/ int \o frac = <<>> \/ ~exp.ok
    THEN F64Error
    ELSE F64Number(neg, DecimalValue(int \o frac), exp.val - Len(frac))

F64Unsigned(neg, body) ==
    IF body \in {<<"i", "n", "f">>, <<"i", "n", "f", "i", "n", "i", "t", "y">>}
    THEN [ok |-> TRUE, val |-> [class |-> "inf", neg |-> neg, mant |-> 0, exp |-> 0]]
    ELSE IF body = <<"n", "a", "n">>
    THEN [ok |-> TRUE, val |-> [class |-> "nan", neg |-> FALSE, mant |-> 0, exp |-> 0]]
    ELSE F64Decimal(neg,
                    BeforeFirst(BeforeFirst(body, "e"), "."),
                    AfterFirst(BeforeFirst(body, "e"), "."),
                    IF Contains(body, "e") THEN ParseI64(AfterFirst(body, "e"))
                    ELSE [ok |-> TRUE, val |-> 0])

ParseF64(s) ==
    IF s # <<>> /\ s[1] \in {"+", "-"}
    THEN F64Unsigned(s[1] = "-", Lower(Tail(s)))
    ELSE F64Unsigned(FALSE, Lower(s))

\* the f64 of a natural number (the tests write byte counts as 100.0, 200.0)
F64OfNat(n) == F64Number(FALSE, n, 0).val

(***************************************************************************)
(* OpenvpnError (error.rs) and Result                                      *)
(***************************************************************************)
NoError == [variant |-> "none", payload |-> <<>>]

\* OpenvpnError::MalformedResponse(String)
MalformedResponse(text) == [variant |-> "MalformedResponse", payload |-> text]

\* From<num::ParseIntError>, From<num::ParseFloatError>, From<io::Error>
ParseIntError == [variant |-> "ParseInt", payload |-> <<>>]

ParseFloatError == [variant |-> "ParseFloat", payload |-> <<>>]

IoError == [variant |-> "Io", payload |-> <<>>]

Ok(v) == [ok |-> TRUE, val |-> v, err |-> NoError]

Err(e) == [ok |-> FALSE, val |-> <<>>, err |-> e]

(***************************************************************************)
(* The response assembler: parse_status_output and its helpers             *)
(***************************************************************************)
\* Utc.timestamp(timestamp, 0): the instant that many whole seconds after the epoch
get_utc_start_time(timestamp) == [secs |-> timestamp, nsecs |-> 0]

\* Utc::now(), the value `timestamp` holds before a TIME line is decoded; it is
\* overwritten before any Status is built
UtcNow == [secs |-> 0, nsecs |-> 1]

\* Client::new
NewClient(name, ip_address, connected_since, bytes_received, bytes_sent) ==
    [name |-> name, ip_address |-> ip_address, connected_since |-> connected_since,
     bytes_received |-> bytes_received, bytes_sent |-> bytes_sent]

\* Status::new
NewStatus(title, timestamp, clients) ==
    [title |-> title, timestamp |-> timestamp, clients |-> clients]

\* the payload without the line's carriage return
split_line_by_tabs_trimmed(raw_line, expected_length) ==
    LET vec == split(raw_line, "\t")
    IN  IF Len(vec) < expected_length
        THEN Err(MalformedResponse(trim(raw_line)))
        ELSE Ok(vec)

split_line_by_tabs(raw_line, expected_length) ==
    LET vec == split(raw_line, "\t")
    IN  IF Len(vec) < expected_length
        THEN Err(MalformedResponse(raw_line))
        ELSE Ok(vec)

\* vec[k] of the code is vec[k + 1] here: sequences start at 1
parse_title(raw_title) ==
    With(split_line_by_tabs(raw_title, 2),
         LAMBDA vec : IF ~vec.ok THEN vec ELSE Ok(pop(vec.val[2])))

parse_timestamp(raw_timestamp) ==
    With(split_line_by_tabs(raw_timestamp, 3),
         LAMBDA vec :
            LET timestamp == ParseI64(pop(vec.val[3]))
            IN  IF ~vec.ok THEN vec
                ELSE IF ~timestamp.ok THEN Err(ParseIntError)
                ELSE Ok(get_utc_start_time(timestamp.val)))

\* the byte counts decoded before the epoch
parse_client_floats_first(raw_client) ==
    With(split_line_by_tabs(raw_client, 9),
         LAMBDA vec :
            IF ~vec.ok THEN vec
            ELSE IF ~ParseF64(vec.val[6]).ok THEN Err(ParseFloatError)
            ELSE IF ~ParseF64(vec.val[7]).ok THEN Err(ParseFloatError)
            ELSE IF ~ParseI64(vec.val[9]).ok THEN Err(ParseIntError)
            ELSE Ok(NewClient(vec.val[2], split(vec.val[3], ":")[1],
                              get_utc_start_time(ParseI64(vec.val[9]).val),
                              ParseF64(vec.val[6]).val, ParseF64(vec.val[7]).val)))

parse_client(raw_client) ==
    With(split_line_by_tabs(raw_client, 9),
         LAMBDA vec :
            LET name == vec.val[2]
                \* split(':').next() is never None: the piece before the first colon
                address == split(vec.val[3], ":")[1]
                timestamp == ParseI64(vec.val[9])
                bytes_received == ParseF64(vec.val[6])
                bytes_sent == ParseF64(vec.val[7])
            IN  IF ~vec.ok THEN vec
                ELSE IF ~timestamp.ok THEN Err(ParseIntError)
                ELSE IF ~bytes_received.ok THEN Err(ParseFloatError)
                ELSE IF ~bytes_sent.ok THEN Err(ParseFloatError)
                ELSE Ok(NewClient(name, address, get_utc_start_time(timestamp.val),
                                  bytes_received.val, bytes_sent.val)))

\* the accumulators of parse_status_output before the first line
ScanStart ==
    [clients |-> <<>>, has_client_list |-> FALSE, has_title |-> FALSE,
     has_timestamp |-> FALSE, timestamp |-> UtcNow, title |-> <<>>]

\* the client put in front
PushClient_front(clients, client) ==
    IF client.name # UNDEF THEN <<client>> \o clients ELSE clients

\* the UNDEF test left out
PushClient_unfiltered(clients, client) == Append(clients, client)

\* lib.rs 198-200: the client is pushed unless its name is UNDEF
PushClient(clients, client) ==
    IF client.name # UNDEF THEN Append(clients, client) ELSE clients

\* the first title and the first timestamp are kept
ScanLine_first_wins(acc, line) ==
    IF starts_with(line, HEADER_START_LINE)
    THEN Ok([acc EXCEPT !.has_client_list = TRUE])
    ELSE IF starts_with(line, START_CLIENT_LIST)
    THEN LET client == parse_client(line)
         IN  IF ~client.ok THEN client
             ELSE Ok([acc EXCEPT !.clients = PushClient(@, client.val)])
    ELSE IF starts_with(line, START_TITLE)
    THEN LET title == parse_title(line)
         IN  IF ~title.ok THEN title
             ELSE IF acc.has_title THEN Ok(acc)
             ELSE Ok([acc EXCEPT !.has_title = TRUE, !.title = title.val])
    ELSE IF starts_with(line, START_TIME)
    THEN LET timestamp == parse_timestamp(line)
         IN  IF ~timestamp.ok THEN timestamp
             ELSE IF acc.has_timestamp THEN Ok(acc)
             ELSE Ok([acc EXCEPT !.has_timestamp = TRUE, !.timestamp = timestamp.val])
    ELSE Ok(acc)

\* lib.rs 193-207: the body of the loop for one line; Ok(accumulators) or the error
\* `?` returns
ScanLine(acc, line) ==
    IF starts_with(line, HEADER_START_LINE)
    THEN Ok([acc EXCEPT !.has_client_list = TRUE])
    ELSE IF starts_with(line, START_CLIENT_LIST)
    THEN LET client == parse_client(line)
         IN  IF ~client.ok THEN client
             ELSE Ok([acc EXCEPT !.clients = PushClient(@, client.val)])
    ELSE IF starts_with(line, START_TITLE)
    THEN LET title == parse_title(line)
         IN  IF ~title.ok THEN title
             ELSE Ok([acc EXCEPT !.has_title = TRUE, !.title = title.val])
    ELSE IF starts_with(line, START_TIME)
    THEN LET timestamp == parse_timestamp(line)
         IN  IF ~timestamp.ok THEN timestamp
             ELSE Ok([acc EXCEPT !.has_timestamp = TRUE, !.timestamp = timestamp.val])
    ELSE Ok(acc)

RECURSIVE ScanLines(_, _, _)
\* lib.rs 192-208: the loop over the lines from line i on
ScanLines(lines, i, acc) ==
    IF i > Len(lines) THEN Ok(acc)
    ELSE With(ScanLine(acc, lines[i]),
              LAMBDA step : IF ~step.ok THEN step ELSE ScanLines(lines, i + 1, step.val))

\* only the client-list header is required
SectionMissing_header_only(acc) == ~acc.has_client_list

\* the title is not required
SectionMissing_no_title(acc) == ~acc.has_client_list \/ ~acc.has_timestamp

\* lib.rs 209: a mandatory section was not seen
SectionMissing(acc) == ~acc.has_client_list \/ ~acc.has_title \/ ~acc.has_timestamp

\* lib.rs 209-212: the end of parse_status_output, scan being what the loop left
Finish(output, scan) ==
    IF ~scan.ok THEN scan
    ELSE IF SectionMissing(scan.val) THEN Err(MalformedResponse(output))
    ELSE Ok(NewStatus(scan.val.title, scan.val.timestamp, scan.val.clients))

parse_status_output(output) ==
    With(split(output, "\n"),
         LAMBDA lines :
            With(ScanLines(lines, 1, ScanStart), LAMBDA scan : Finish(output, scan)))

(***************************************************************************)
(* Bounds                                                                  *)
(***************************************************************************)
\* chunks of text a response handed to parse_status_output is made of
MaxChunks == 3

\* chunks of text the server writes on one connection
MaxSends == 3

(***************************************************************************)
(* The texts a server sends: lines in the layout of the tests' responses   *)
(* (tests/integration_test.rs), ended by CR LF as there or by LF alone     *)
(***************************************************************************)
TAB == <<"\t">>

CRLF == <<"\r", "\n">>

LF == <<"\n">>

RECURSIVE FormatNat(_)
\* i64's / f64's Display of a natural number: its decimal digits
FormatNat(n) ==
    LET digit == <<"0", "1", "2", "3", "4", "5", "6", "7", "8", "9">>[(n % 10) + 1]
    IN  IF n < 10 THEN <<digit>> ELSE Append(FormatNat(n \div 10), digit)

TitleLine(title) == START_TITLE \o TAB \o title

TimeLine(epoch) == START_TIME \o TAB \o <<"x">> \o TAB \o epoch

\* CLIENT_LIST, name, address:port, virtual address, (empty), bytes received,
\* bytes sent, date string, epoch: 9 fields
ClientListLine(name, address, received, sent, epoch) ==
    START_CLIENT_LIST \o TAB \o name \o TAB \o address \o TAB \o <<"v">> \o TAB \o TAB
        \o received \o TAB \o sent \o TAB \o <<"d">> \o TAB \o epoch

\* the clients the synthetic responses encode
ClientA == [name |-> <<"a">>, ip |-> <<"1", ".", "2">>, port |-> 5,
            since |-> 3, received |-> 10, sent |-> 2]

ClientB == [name |-> <<"b">>, ip |-> <<"1", ".", "3">>, port |-> 5,
            since |-> 4, received |-> 0, sent |-> 25]

ClientUndef == [name |-> UNDEF, ip |-> <<"1", ".", "4">>, port |-> 5,
                since |-> 3, received |-> 1, sent |-> 1]

EncodeClient(c) ==
    ClientListLine(c.name, c.ip \o <<":">> \o FormatNat(c.port), FormatNat(c.received),
                   FormatNat(c.sent), FormatNat(c.since))

\* the Client the tests expect for an encoded client (new_mock_client)
MockClient(c) ==
    NewClient(c.name, c.ip, get_utc_start_time(c.since), F64OfNat(c.received),
              F64OfNat(c.sent))

\* the title and the time the synthetic responses encode
EncodedStatus == [title |-> <<"t">>, epoch |-> 7]

TitleText == EncodedStatus.title

TimeEpoch == EncodedStatus.epoch

\* the three marker lines that open every response of the tests
Preamble ==
    TitleLine(TitleText) \o CRLF \o TimeLine(FormatNat(TimeEpoch)) \o CRLF
        \o HEADER_START_LINE \o CRLF

\* a CLIENT_LIST line with 2 fields
ShortClientLine == START_CLIENT_LIST \o TAB \o <<"a">>

NotANumber == <<"N", "A", "N", "_">>

ParsePool ==
    { Preamble,
      TitleLine(TitleText) \o CRLF,
      TitleLine(<<"u">>) \o LF,
      START_TITLE \o CRLF,
      TimeLine(FormatNat(TimeEpoch)) \o CRLF,
      TimeLine(NotANumber) \o CRLF,
      HEADER_START_LINE \o CRLF,
      <<"j">> \o LF,
      EncodeClient(ClientA) \o LF,
      EncodeClient(ClientB) \o LF,
      EncodeClient(ClientUndef) \o LF,
      EncodeClient(ClientA) \o CRLF,
      ShortClientLine \o CRLF,
      ClientListLine(<<"a">>, <<"1", ":", "5">>, NotANumber, <<"2">>, <<"3">>) \o CRLF,
      ClientListLine(<<"a">>, <<"1", ":", "5">>, <<"1">>, NotANumber, <<"3">>) \o LF,
      ClientListLine(<<"a">>, <<"1", ":", "5">>, <<"1">>, <<"2">>, NotANumber) \o LF }

RECURSIVE Concat(_)
Concat(chunks) == IF chunks = <<>> THEN <<>> ELSE Head(chunks) \o Concat(Tail(chunks))

\* the responses of at most MaxChunks chunks, each ended by the END line
Responses ==
    { Concat(chunks) \o ENDING :
        chunks \in UNION { [1..n -> ParsePool] : n \in 0..MaxChunks } }

WirePool ==
    { Preamble,
      EncodeClient(ClientA) \o LF,
      ENDING,
      ENDING \o CRLF }

(***************************************************************************)
(* State                                                                   *)
(***************************************************************************)
VARIABLES
    pc,               \* where get_status is: connect, set_timeout, write, loop, read, parse, done
    connect_timeout,  \* CommandManager.connect_timeout: none, zero or positive
    read_timeout,     \* CommandManager.read_timeout: none, zero or positive
    peer,             \* the server's end of the connection: none, open or closed
    sends,            \* chunks the server has written
    received,         \* the bytes the server has received
    wire,             \* the bytes the server has written and read_line has not yet taken
    output,           \* the local `output` of get_status
    result            \* what get_status returned, NoResult while it runs

vars == <<pc, connect_timeout, read_timeout, peer, sends, received, wire, output, result>>

NoResult == [ok |-> FALSE, val |-> <<>>, err |-> NoError]

Timeouts == {"none", "zero", "positive"}

(***************************************************************************)
(* get_status (lib.rs 102-118), one action per step, and the server        *)
(***************************************************************************)
\* the error is recorded and the call goes on with the read loop
Return_and_go_on(r) == pc' = "loop" /\ result' = r

\* `?`: the call returns the error
Return(r) == pc' = "done" /\ result' = r

\* lib.rs 103-106. TcpStream::connect_timeout refuses a zero Duration; otherwise
\* the server accepts or the connection fails.
Connect ==
    /\ pc = "connect"
    /\ \/ /\ connect_timeout # "zero"
          /\ pc' = "set_timeout"
          /\ peer' = "open"
          /\ UNCHANGED result
       \/ /\ Return(Err(IoError))
          /\ UNCHANGED peer
    /\ UNCHANGED <<connect_timeout, read_timeout, sends, received, wire, output>>

\* lib.rs 107. set_read_timeout refuses Some(zero Duration).
SetReadTimeout ==
    /\ pc = "set_timeout"
    /\ IF read_timeout = "zero"
       THEN Return(Err(IoError))
       ELSE pc' = "write" /\ UNCHANGED result
    /\ UNCHANGED <<connect_timeout, read_timeout, peer, sends, received, wire, output>>

\* lib.rs 108-111. write_all hands the command to the connection, or fails once the
\* server has closed it; then `output` is the empty String.
WriteCommand ==
    /\ pc = "write"
    /\ \/ /\ pc' = "loop"
          /\ received' = received \o STATUS_COMMAND
          /\ output' = <<>>
          /\ UNCHANGED result
       \/ /\ peer = "closed"
          /\ Return(Err(IoError))
          /\ UNCHANGED <<received, output>>
    /\ UNCHANGED <<connect_timeout, read_timeout, peer, sends, wire>>

\* the buffer tested as it is, not trimmed
LoopTest_untrimmed ==
    /\ pc = "loop"
    /\ pc' = IF ~ends_with(output, ENDING) THEN "read" ELSE "parse"
    /\ UNCHANGED <<connect_timeout, read_timeout, peer, sends, received, wire, output, result>>

\* lib.rs 112: the test of the while loop
LoopTest ==
    /\ pc = "loop"
    /\ pc' = IF ~ends_with(trim(output), ENDING) THEN "read" ELSE "parse"
    /\ UNCHANGED <<connect_timeout, read_timeout, peer, sends, received, wire, output, result>>

HasLine(text) == \E i \in 1..Len(text) : text[i] = "\n"

\* what BufRead::read_line takes: the bytes up to and including the first line feed,
\* or all that is left when the stream ended before one (nothing, Ok(0), at its end)
FirstLine(text) ==
    IF HasLine(text)
    THEN SubSeq(text, 1, SetMin({i \in 1..Len(text) : text[i] = "\n"}))
    ELSE text

\* lib.rs 113: read_line returns once a line is there or the server has closed
ReadLine ==
    /\ pc = "read"
    /\ HasLine(wire) \/ peer = "closed"
    /\ output' = output \o FirstLine(wire)
    /\ wire' = SubSeq(wire, Len(FirstLine(wire)) + 1, Len(wire))
    /\ pc' = "loop"
    /\ UNCHANGED <<connect_timeout, read_timeout, peer, sends, received, result>>

\* lib.rs 113: read_line waits for the rest of a line from a silent server, and the
\* read timeout, when one is set, ends the wait with an io::Error
ReadTimeout ==
    /\ pc = "read"
    /\ read_timeout = "positive"
    /\ ~HasLine(wire) /\ peer = "open"
    /\ Return(Err(IoError))
    /\ UNCHANGED <<connect_timeout, read_timeout, peer, sends, received, wire, output>>

\* lib.rs 116-117
Parse ==
    /\ pc = "parse"
    /\ Return(parse_status_output(output))
    /\ UNCHANGED <<connect_timeout, read_timeout, peer, sends, received, wire, output>>

\* the server writes a chunk of text (tests/integration_test.rs 29)
ServerSend(chunk) ==
    /\ peer = "open"
    /\ sends < MaxSends
    /\ wire' = wire \o chunk
    /\ sends' = sends + 1
    /\ UNCHANGED <<pc, connect_timeout, read_timeout, peer, received, output, result>>

\* the server's stream is dropped (tests/integration_test.rs 30)
ServerClose ==
    /\ peer = "open"
    /\ peer' = "closed"
    /\ UNCHANGED <<pc, connect_timeout, read_timeout, sends, received, wire, output, result>>

Init ==
    /\ pc = "connect"
    /\ connect_timeout \in Timeouts
    /\ read_timeout \in Timeouts
    /\ peer = "none"
    /\ sends = 0
    /\ received = <<>>
    /\ wire = <<>>
    /\ output = <<>>
    /\ result = NoResult

GetStatus ==
    Connect \/ SetReadTimeout \/ WriteCommand \/ LoopTest \/ ReadLine \/ ReadTimeout \/ Parse

Server == (\E chunk \in WirePool : ServerSend(chunk)) \/ ServerClose

Next == GetStatus \/ Server

Spec == Init /\ [][Next]_vars

\* get_status is a sequential call: a step of it that can be taken is taken. The
\* server is free to stay silent.
FairSpec == Spec /\ WF_vars(GetStatus)

\* parse_status_output on its own: get_status has read a whole response
ParseInit ==
    /\ pc = "parse"
    /\ connect_timeout = "none"
    /\ read_timeout = "none"
    /\ peer = "closed"
    /\ sends = 0
    /\ received = STATUS_COMMAND
    /\ wire = <<>>
    /\ output \in Responses
    /\ result = NoResult

ParseNext == Parse

ParseSpec == ParseInit /\ [][ParseNext]_vars

\* responses about the TITLE and TIME lines: ended by CR LF or by LF alone, or with
\* a further field after the value
MarkerPool ==
    { Preamble,
      TitleLine(TitleText) \o CRLF,
      TitleLine(<<"u">>) \o LF,
      TitleLine(<<"u", "v">>) \o TAB \o <<"w">> \o CRLF,
      TimeLine(FormatNat(TimeEpoch)) \o CRLF,
      TimeLine(<<"1", "7">>) \o LF,
      TimeLine(<<"2", "5">>) \o TAB \o <<"w">> \o CRLF,
      HEADER_START_LINE \o CRLF,
      EncodeClient(ClientA) \o LF }

MarkerResponses ==
    { Concat(chunks) \o ENDING :
        chunks \in UNION { [1..n -> MarkerPool] : n \in 0..MaxChunks } }

MarkerInit ==
    /\ pc = "parse"
    /\ connect_timeout = "none"
    /\ read_timeout = "none"
    /\ peer = "closed"
    /\ sends = 0
    /\ received = STATUS_COMMAND
    /\ wire = <<>>
    /\ output \in MarkerResponses
    /\ result = NoResult

MarkerSpec == MarkerInit /\ [][ParseNext]_vars

(***************************************************************************)
(* Vocabulary of the properties: the response as the claims describe it    *)
(***************************************************************************)
\* the lines of the response handed to parse_status_output
ResponseLines == split(output, "\n")

LineNumbers == 1..Len(ResponseLines)

TabFields(line) == split(line, "\t")

IsHeaderLine(line) == starts_with(line, HEADER_START_LINE)

IsClientListLine(line) == starts_with(line, START_CLIENT_LIST)

IsTitleLine(line) == starts_with(line, START_TITLE)

IsTimeLine(line) == starts_with(line, START_TIME)

CountLines(P(_)) == Cardinality({i \in LineNumbers : P(ResponseLines[i])})

\* a mandatory marker is absent from the response
LacksMarker ==
    CountLines(IsHeaderLine) = 0 \/ CountLines(IsTitleLine) = 0 \/ CountLines(IsTimeLine) = 0

IsShortClientLine(line) == IsClientListLine(line) /\ Len(TabFields(line)) < 9

\* a CLIENT_LIST line with 9 fields or more whose field 8 is not an integer
HasBadEpoch(line) ==
    IsClientListLine(line) /\ Len(TabFields(line)) >= 9 /\ ~ParseI64(TabFields(line)[9]).ok

\* a CLIENT_LIST line with 9 fields or more whose field 5 or 6 is not a number
HasBadFloat(line) ==
    /\ IsClientListLine(line) /\ Len(TabFields(line)) >= 9
    /\ ~ParseF64(TabFields(line)[6]).ok \/ ~ParseF64(TabFields(line)[7]).ok

\* the line, taken alone, ends the decoding with an error
LineFails(line) ==
    \/ IsShortClientLine(line) \/ HasBadEpoch(line) \/ HasBadFloat(line)
    \/ IsTitleLine(line) /\ Len(TabFields(line)) < 2
    \/ IsTimeLine(line) /\ Len(TabFields(line)) < 3
    \/ IsTimeLine(line) /\ Len(TabFields(line)) >= 3 /\ ~ParseI64(pop(TabFields(line)[3])).ok

NoLineFails == \A i \in LineNumbers : ~LineFails(ResponseLines[i])

NoLineFailsBefore(i) == \A j \in 1..(i - 1) : ~LineFails(ResponseLines[j])

\* a text with one trailing carriage return removed, and nothing else
TrimCR(s) == IF ends_with(s, <<"\r">>) THEN pop(s) ELSE s

EncodeResponse(clients) ==
    Preamble \o Concat([i \in 1..Len(clients) |-> EncodeClient(clients[i]) \o CRLF]) \o ENDING

\* the Status the tests expect for it (new_mock_status)
MockStatus(clients) ==
    NewStatus(TitleText, get_utc_start_time(TimeEpoch),
              [i \in 1..Len(clients) |-> MockClient(clients[i])])

EncodedClients == UNION { [1..n -> {ClientA, ClientB}] : n \in 0..2 }

\* C3: the response that encodes N well-formed clients in the tests' layout makes
\* get_status return the Status with exactly those N clients.
C3_RoundTrip ==
    pc = "done" =>
        \A clients \in EncodedClients :
            output = EncodeResponse(clients) => result = Ok(MockStatus(clients))

(***************************************************************************)
(* C4                                                                      *)
(***************************************************************************)
IsNamedClientLine(line) ==
    IsClientListLine(line) /\ Len(TabFields(line)) >= 2 /\ TabFields(line)[2] # UNDEF

\* the client a well-formed CLIENT_LIST line describes
DescribedClient(line) ==
    NewClient(TabFields(line)[2], BeforeFirst(TabFields(line)[3], ":"),
              get_utc_start_time(ParseI64(TabFields(line)[9]).val),
              ParseF64(TabFields(line)[6]).val, ParseF64(TabFields(line)[7]).val)

NamedClientLines == SelectSeq(ResponseLines, IsNamedClientLine)

\* C4: on success the clients are the ones of the CLIENT_LIST lines whose name is
\* not UNDEF, in line order, each as often as it appears, and nothing else.
C4_ClientsInLineOrder ==
    (pc = "done" /\ result.ok)
        => result.val.clients
              = [i \in 1..Len(NamedClientLines) |-> DescribedClient(NamedClientLines[i])]

C4_Witness ==
    /\ pc = "done" /\ result.ok
    /\ Len(result.val.clients) = 2
    /\ result.val.clients[1] # result.val.clients[2]

(***************************************************************************)
(* C5                                                                      *)
(***************************************************************************)
\* C5: no client of a returned Status is named UNDEF.
C5_NoUndefClient ==
    (pc = "done" /\ result.ok)
        => \A i \in 1..Len(result.val.clients) : result.val.clients[i].name # UNDEF

C5_Witness ==
    /\ pc = "done" /\ result.ok
    /\ \E i \in LineNumbers :
          /\ IsClientListLine(ResponseLines[i])
          /\ Len(TabFields(ResponseLines[i])) >= 9
          /\ TabFields(ResponseLines[i])[2] = UNDEF

(***************************************************************************)
(* C6                                                                      *)
(***************************************************************************)
\* field 8 is an integer, followed or not by the carriage return that ends the line
EpochIsInteger(line) ==
    \/ ParseI64(TabFields(line)[9]).ok
    \/ Len(TabFields(line)) = 9 /\ ends_with(TabFields(line)[9], <<"\r">>)
          /\ ParseI64(pop(TabFields(line)[9])).ok

\* C6: a CLIENT_LIST line with an integer epoch whose bytes-received or bytes-sent
\* field is not a number ends the call in ParseFloat, also when the line ends with
\* CR LF right after the epoch (stated for the first line that ends the decoding).
C6_FloatError ==
    pc = "done" =>
        \A i \in LineNumbers :
            ( /\ HasBadFloat(ResponseLines[i])
              /\ EpochIsInteger(ResponseLines[i])
              /\ NoLineFailsBefore(i) )
                => result = Err(ParseFloatError)

IsEmptyListResponse(i, j) ==
    /\ IsTitleLine(ResponseLines[i]) /\ Len(TabFields(ResponseLines[i])) >= 2
    /\ IsTimeLine(ResponseLines[j]) /\ Len(TabFields(ResponseLines[j])) >= 3
    /\ ends_with(TabFields(ResponseLines[j])[3], <<"\r">>)
    /\ ParseI64(pop(TabFields(ResponseLines[j])[3])).ok
    /\ CountLines(IsTitleLine) = 1 /\ CountLines(IsTimeLine) = 1
    /\ CountLines(IsHeaderLine) > 0 /\ CountLines(IsClientListLine) = 0

\* C8: such a response is a success with the title of its TITLE line (field 1,
\* trailing CR trimmed), the timestamp of its TIME line and no client, in whatever
\* order the lines come.
C8_EmptyClientList ==
    pc = "done" =>
        \A i, j \in LineNumbers :
            IsEmptyListResponse(i, j)
                => result = Ok(NewStatus(
                       TrimCR(TabFields(ResponseLines[i])[2]),
                       get_utc_start_time(ParseI64(pop(TabFields(ResponseLines[j])[3])).val),
                       <<>>))

C10_CallReturns == (read_timeout # "none") ~> (pc = "done")

(***************************************************************************)
(* C11                                                                     *)
(***************************************************************************)
\* the order of the steps of one call, and the steps whose failure ends it
StepOrder ==
    { <<"connect", "set_timeout">>, <<"set_timeout", "write">>, <<"write", "loop">>,
      <<"loop", "read">>, <<"read", "loop">>, <<"loop", "parse">>, <<"parse", "done">> }

FailingSteps == {"connect", "set_timeout", "write", "read", "parse"}

\* the command has been written once, on the one connection of the call
CommandWritten == received = STATUS_COMMAND /\ peer # "none"

\* what one step may change, and from where
StepRule ==
    /\ pc' # pc =>
          \/ <<pc, pc'>> \in StepOrder
          \/ pc \in FailingSteps /\ pc' = "done" /\ ~result'.ok /\ result'.err # NoError
    /\ (peer' = "open" /\ peer # "open") => (pc = "connect" /\ peer = "none")
    /\ received' # received =>
          (pc = "write" /\ pc' = "loop" /\ received' = received \o STATUS_COMMAND)
    /\ output' # output => pc = "read"
    /\ result' # result => (pc # "done" /\ pc' = "done")
    /\ pc = "done" => UNCHANGED <<pc, result, received, output>>

\* C11: the steps of a call come in the order connect, set timeout, write, read
\* loop, parse; at most one connection is opened and only by the connect step; the
\* command is written once, by the write step, before any read; parsing starts from
\* the loop test only; a failing step ends the call with its error, and nothing of
\* the call happens after it has returned.
C11_StepsInOrder ==
    /\ [](pc \in {"loop", "read", "parse"} => CommandWritten)
    /\ [](pc \in {"connect", "set_timeout", "write"} => (received = <<>> /\ output = <<>>))
    /\ [][StepRule]_vars

\* a call that failed in the read loop: the command was written once, nothing parsed
C11_Witness ==
    /\ pc = "done" /\ result = Err(IoError)
    /\ received = STATUS_COMMAND /\ peer = "open" /\ output # <<>>

(***************************************************************************)
(* C12                                                                     *)
(***************************************************************************)
\* the text, trimmed of surrounding whitespace, ends with END
EndsWithEnding(text) == ends_with(trim(text), ENDING)

\* the positions of text after which a line is complete
LineEnds(text) == {k \in 1..Len(text) : text[k] = "\n"}

\* text runs up to and including the first line after which it ends with END
IsFramed(text) ==
    /\ EndsWithEnding(text)
    /\ \A k \in LineEnds(text) : k < Len(text) => ~EndsWithEnding(SubSeq(text, 1, k))

\* a is the beginning of b
IsPrefix(a, b) == Len(a) <= Len(b) /\ SubSeq(b, 1, Len(a)) = a

\* the bytes of the server stay in order: what is read is one line, moved from the
\* front of what the server has written to the end of the buffer; the server only
\* adds at the end; nothing is read once the parsing has started
ReadRule ==
    /\ output' # output =>
          /\ pc = "read"
          /\ output' \o wire' = output \o wire
          /\ IsPrefix(output, output')
          /\ LineEnds(output') \ LineEnds(output) \subseteq {Len(output')}
          /\ (output'[Len(output')] # "\n") => (wire' = <<>> /\ peer = "closed")
    /\ output' = output => IsPrefix(wire, wire')
    /\ pc \in {"parse", "done"} => output' = output

\* C12: the text handed to parse_status_output is the lines received from the
\* server, in order, up to and including the first line after which the trimmed
\* buffer ends with END; parsing never starts before that, and no line is read
\* after it.
C12_ParsedTextIsFramed ==
    /\ [](pc = "parse" => IsFramed(output))
    /\ []((pc = "done" /\ result.ok) => IsFramed(output))
    /\ [][ReadRule]_vars

\* parsing starts on three lines or more while the server has written further text
C12_Witness ==
    /\ pc = "parse" /\ Cardinality(LineEnds(output)) >= 3
    /\ wire # <<>> /\ IsFramed(output)

(***************************************************************************)
(* C13                                                                     *)
(***************************************************************************)
\* line i is the only TITLE line and line j the only TIME line of the response, with
\* 2 and 3 fields or more; field 2 of the TIME line is an integer once a trailing CR
\* is removed; the header marker is there and no CLIENT_LIST line fails
HasOneTitleAndTime(i, j) ==
    /\ IsTitleLine(ResponseLines[i]) /\ Len(TabFields(ResponseLines[i])) >= 2
    /\ IsTimeLine(ResponseLines[j]) /\ Len(TabFields(ResponseLines[j])) >= 3
    /\ ParseI64(TrimCR(TabFields(ResponseLines[j])[3])).ok
    /\ CountLines(IsTitleLine) = 1 /\ CountLines(IsTimeLine) = 1
    /\ CountLines(IsHeaderLine) > 0
    /\ \A k \in LineNumbers :
          IsClientListLine(ResponseLines[k]) => ~LineFails(ResponseLines[k])

\* C13: the title is field 1 of the TITLE line with a trailing CR removed and nothing
\* else removed, and the timestamp is the integer of field 2 of the TIME line with a
\* trailing CR removed and nothing else removed; a field without a trailing CR is
\* taken unchanged.
C13_OnlyTrailingCRRemoved ==
    pc = "done" =>
        \A i, j \in LineNumbers :
            HasOneTitleAndTime(i, j)
                => /\ result.ok
                   /\ result.val.title = TrimCR(TabFields(ResponseLines[i])[2])
                   /\ result.val.timestamp
                         = get_utc_start_time(
                               ParseI64(TrimCR(TabFields(ResponseLines[j])[3])).val)

(***************************************************************************)
(* C14                                                                     *)
(***************************************************************************)
TitleLineNumbers == {i \in LineNumbers : IsTitleLine(ResponseLines[i])}

TimeLineNumbers == {i \in LineNumbers : IsTimeLine(ResponseLines[i])}

\* the title and the timestamp as parse_title and parse_timestamp decode them from
\* line i: the last character of the field removed
DecodedTitle(i) == pop(TabFields(ResponseLines[i])[2])

DecodedTime(i) == get_utc_start_time(ParseI64(pop(TabFields(ResponseLines[i])[3])).val)

\* C14: when get_status succeeds, the title is the one decoded from the last TITLE
\* line and the timestamp the one decoded from the last TIME line, however many of
\* them there are and wherever the header and the CLIENT_LIST lines are.
C14_LastTitleAndTimeWin ==
    (pc = "done" /\ result.ok)
        => /\ result.val.title = DecodedTitle(SetMax(TitleLineNumbers))
           /\ result.val.timestamp = DecodedTime(SetMax(TimeLineNumbers))

\* a success on a response with two TITLE and two TIME lines that decode differently
C14_Witness ==
    /\ pc = "done" /\ result.ok
    /\ Cardinality(TitleLineNumbers) >= 2 /\ Cardinality(TimeLineNumbers) >= 2
    /\ DecodedTitle(SetMin(TitleLineNumbers)) # result.val.title
    /\ DecodedTime(SetMin(TimeLineNumbers)) # result.val.timestamp

====
